---- MODULE Spec2Model ----
(***************************************************************************)
(* neckcheck: a posture monitor.  WebCam wraps the camera stream,          *)
(* FaceDetector returns the bounding boxes of a frame, NeckCheck holds the *)
(* optional calibration and decides, main() calibrates once, then runs the *)
(* proximity thread next to the GUI event loop.                            *)
(*                                                                         *)
(* Three views of the same code are specified:                             *)
(*   SpecCam      WebCam::capture driven directly against a fake driver    *)
(*                that counts its open/close calls;                        *)
(*   SpecMonitor  a NeckCheck built by new() or with_calibration() and     *)
(*                driven by any sequence of calibrate() and check() calls; *)
(*   Spec         main(): calibration, window set-up, the proximity thread *)
(*                and the event loop (FairSpec adds the scheduler's        *)
(*                fairness, CalibrateSpec the operator who eventually      *)
(*                shows exactly one face).                                 *)
(*                                                                         *)
(* The camera driver, the detection model, the terminal and the window     *)
(* system are outside the repository: their replies are inputs, drawn      *)
(* with \E from DriverReplies and FaceLists.  A Rect is kept as its        *)
(* width and height, the only fields calibrate() and check() read.         *)
(***************************************************************************)
EXTENDS Integers, Sequences, FiniteSets, TLC

\* Most bounding boxes one detection returns.
MaxFaces == 2
\* Most capture() calls the fake driver counts in SpecCam.
MaxCaptures == 4

VARIABLES
  harness,           \* who drives the code: "main", "test" (NeckCheck), "camtest" (WebCam)
  webcam,            \* WebCam: [mode, stream_open]
  calibration,       \* NeckCheck.calibration: <<>> is None, <<c>> is Some(c)
  faces,             \* the Vec<Rect> returned by the last detect()
  capture_result,    \* result of the last capture(): "none", "Ok" or the error
  ret,               \* value returned by the last check() that returned
  op,                \* the last operation called: "new", "calibrate", "check", "capture"
  opens, closes, captures,  \* fake driver: open_stream / stop_stream / capture calls
  grabs,             \* fake driver: frame() calls
  driver,            \* fake driver: its replies during the last capture()
  pcMain,            \* position of the main thread
  pcProx,            \* position of the proximity thread
  is_close,          \* the proximity thread's local of line 264
  is_too_close,      \* the shared flag
  visible,           \* the window is shown
  neckcheck_lock,    \* holder of the Mutex<NeckCheck>
  neckcheck_poisoned,\* a thread panicked while holding it
  is_too_close_lock  \* holder of the Mutex<bool>

vars == <<harness, webcam, calibration, faces, capture_result, ret, op, opens,
          closes, captures, grabs, driver, pcMain, pcProx, is_close, is_too_close, visible,
          neckcheck_lock, neckcheck_poisoned, is_too_close_lock>>

camVars  == <<opens, closes, captures, grabs, driver>>
progVars == <<pcProx, is_close, is_too_close, visible, neckcheck_poisoned,
              is_too_close_lock>>

----------------------------------------------------------------------------
\* Data

None == <<>>
Some(x) == <<x>>

WebCamMode == {"Continuous", "Discrete"}

WebCamError == {"FrameGrabError", "StreamOpenError", "StreamCloseError",
                "FrameDecodeError"}

Size(w, h) == [width |-> w, height |-> h]

NeckCheckCalibration(size) == [max_detection_size |-> size]

\* The bounding boxes the detector may report.
Boxes == {Size(50, 80), Size(60, 80), Size(100, 100), Size(101, 100),
          Size(100, 101)}

\* What FaceDetector::detect may return: any list of boxes, in any order.
FaceLists == UNION {[1..n -> Boxes] : n \in 0..MaxFaces}

\* What the camera driver answers to open_stream, frame, decode_image and
\* stop_stream during one capture(): TRUE is Ok, FALSE is Err.
DriverReplies == [open : BOOLEAN, frame : BOOLEAN, decode : BOOLEAN,
                  close : BOOLEAN]

\* The fake driver before its first call.
NoReply == [open |-> TRUE, frame |-> TRUE, decode |-> TRUE, close |-> TRUE]

----------------------------------------------------------------------------
\* WebCam

WebCamNew(mode) == [mode |-> mode, stream_open |-> FALSE]

\* open(): Ok opens the stream, Err leaves it as it was.
open(cam, ok) ==
  [webcam |-> IF ok THEN [cam EXCEPT !.stream_open = TRUE] ELSE cam,
   result |-> IF ok THEN "Ok" ELSE "StreamOpenError"]

\* close(): Ok stops the stream, Err leaves it as it was.
close(cam, ok) ==
  [webcam |-> IF ok THEN [cam EXCEPT !.stream_open = FALSE] ELSE cam,
   result |-> IF ok THEN "Ok" ELSE "StreamCloseError"]

\* Faulty variant of capture: the stream is opened on every call, without
\* the is_stream_open test of line 67.
capture_always_opens(cam, d) ==
  LET lazy     == TRUE
      opened   == IF lazy THEN open(cam, d.open).webcam ELSE cam
      frameOk  == opened.stream_open /\ d.frame
      discrete == opened.mode = "Discrete"
  IN  IF ~frameOk
        THEN [webcam |-> opened, result |-> "FrameGrabError",
              opened |-> lazy, grabbed |-> TRUE, closed |-> FALSE]
      ELSE IF ~d.decode
        THEN [webcam |-> opened, result |-> "FrameDecodeError",
              opened |-> lazy, grabbed |-> TRUE, closed |-> FALSE]
      ELSE [webcam |-> IF discrete THEN close(opened, d.close).webcam
                       ELSE opened,
            result |-> "Ok", opened |-> lazy, grabbed |-> TRUE,
            closed |-> discrete]

\* Faulty variant of capture: the error of the lazy open is returned to the
\* caller (self.open()?) instead of being dropped.
capture_returns_open_error(cam, d) ==
  LET lazy     == ~cam.stream_open
      opened   == IF lazy THEN open(cam, d.open).webcam ELSE cam
      frameOk  == opened.stream_open /\ d.frame
      discrete == opened.mode = "Discrete"
  IN  IF lazy /\ ~d.open
        THEN [webcam |-> opened, result |-> "StreamOpenError",
              opened |-> lazy, grabbed |-> FALSE, closed |-> FALSE]
      ELSE IF ~frameOk
        THEN [webcam |-> opened, result |-> "FrameGrabError",
              opened |-> lazy, grabbed |-> TRUE, closed |-> FALSE]
      ELSE IF ~d.decode
        THEN [webcam |-> opened, result |-> "FrameDecodeError",
              opened |-> lazy, grabbed |-> TRUE, closed |-> FALSE]
      ELSE [webcam |-> IF discrete THEN close(opened, d.close).webcam
                       ELSE opened,
            result |-> "Ok", opened |-> lazy, grabbed |-> TRUE,
            closed |-> discrete]

\* capture(): lazy open (result dropped), frame, decode, close in Discrete
\* mode (result dropped).  frame() on a stream that is not open is an error.
\* opened, grabbed and closed tell which driver calls were made.
capture(cam, d) ==
  LET lazy     == ~cam.stream_open
      opened   == IF lazy THEN open(cam, d.open).webcam ELSE cam
      frameOk  == opened.stream_open /\ d.frame
      discrete == opened.mode = "Discrete"
  IN  IF ~frameOk
        THEN [webcam |-> opened, result |-> "FrameGrabError",
              opened |-> lazy, grabbed |-> TRUE, closed |-> FALSE]
      ELSE IF ~d.decode
        THEN [webcam |-> opened, result |-> "FrameDecodeError",
              opened |-> lazy, grabbed |-> TRUE, closed |-> FALSE]
      ELSE [webcam |-> IF discrete THEN close(opened, d.close).webcam
                       ELSE opened,
            result |-> "Ok", opened |-> lazy, grabbed |-> TRUE,
            closed |-> discrete]

----------------------------------------------------------------------------
\* NeckCheck

\* detect(): capture().unwrap() panics on any capture error; otherwise the
\* detector's boxes fs are returned.
detect(cam, d, fs) ==
  LET c == capture(cam, d)
  IN  [webcam |-> c.webcam, capture_result |-> c.result,
       panicked |-> c.result # "Ok",
       faces |-> IF c.result = "Ok" THEN fs ELSE <<>>]

\* Faulty variant of exceeds: the limit itself already counts as too close.
exceeds_inclusive(face, max) ==
  face.width >= max.width \/ face.height >= max.height

\* Faulty variant of exceeds: the width is not compared.
exceeds_height_only(face, max) == face.height > max.height

\* The comparison of lines 226-227.
exceeds(face, max) == face.width > max.width \/ face.height > max.height

\* Faulty variant of check: a frame without a face is reported as too close.
check_no_face_false(cal, cam, d, fs) ==
  LET det == detect(cam, d, fs)
      outcome ==
        IF det.panicked THEN "panic"
        ELSE IF det.faces = <<>> THEN "false"
        ELSE IF cal = None THEN "panic"
        ELSE IF exceeds(Head(det.faces), cal[1].max_detection_size)
               THEN "false"
        ELSE "true"
  IN  [webcam |-> det.webcam, capture_result |-> det.capture_result,
       detected |-> ~det.panicked, faces |-> det.faces, outcome |-> outcome]

\* Faulty variant of check: any detection over the limit counts, not only
\* the first.
check_any_face(cal, cam, d, fs) ==
  LET det == detect(cam, d, fs)
      outcome ==
        IF det.panicked THEN "panic"
        ELSE IF det.faces = <<>> THEN "true"
        ELSE IF cal = None THEN "panic"
        ELSE IF \E i \in 1..Len(det.faces) :
                  exceeds(det.faces[i], cal[1].max_detection_size)
               THEN "false"
        ELSE "true"
  IN  [webcam |-> det.webcam, capture_result |-> det.capture_result,
       detected |-> ~det.panicked, faces |-> det.faces, outcome |-> outcome]

\* check(): outcome "true" / "false" is the returned bool, "panic" a panic.
check(cal, cam, d, fs) ==
  LET det == detect(cam, d, fs)
      outcome ==
        IF det.panicked THEN "panic"
        ELSE IF det.faces = <<>> THEN "true"
        ELSE IF cal = None THEN "panic"
        ELSE IF exceeds(Head(det.faces), cal[1].max_detection_size)
               THEN "false"
        ELSE "true"
  IN  [webcam |-> det.webcam, capture_result |-> det.capture_result,
       detected |-> ~det.panicked, faces |-> det.faces, outcome |-> outcome]

\* Faulty variant of calibrate_sample: several faces are not discarded, the
\* first one is taken.
calibrate_sample_first_of_many(cal, cam, d, fs) ==
  LET det   == detect(cam, d, fs)
      local == det.faces
      done  == ~det.panicked /\ local # <<>>
  IN  [webcam |-> det.webcam, capture_result |-> det.capture_result,
       panicked |-> det.panicked, detected |-> ~det.panicked,
       faces |-> det.faces, done |-> done,
       calibration |->
         IF done
           THEN Some(NeckCheckCalibration(
                       Size(Head(local).width, Head(local).height)))
           ELSE cal]

\* Faulty variant of calibrate_sample: a rejected sample drops the
\* calibration the monitor had.
calibrate_sample_forgets(cal, cam, d, fs) ==
  LET det   == detect(cam, d, fs)
      local == IF Len(det.faces) > 1 THEN <<>> ELSE det.faces
      done  == ~det.panicked /\ local # <<>>
  IN  [webcam |-> det.webcam, capture_result |-> det.capture_result,
       panicked |-> det.panicked, detected |-> ~det.panicked,
       faces |-> det.faces, done |-> done,
       calibration |->
         IF done
           THEN Some(NeckCheckCalibration(
                       Size(Head(local).width, Head(local).height)))
           ELSE None]

\* Faulty variant of calibrate_sample: the test of line 199 is off by one
\* (len() >= 1), so a single face is discarded too.
calibrate_sample_rejects_one(cal, cam, d, fs) ==
  LET det   == detect(cam, d, fs)
      local == IF Len(det.faces) >= 1 THEN <<>> ELSE det.faces
      done  == ~det.panicked /\ local # <<>>
  IN  [webcam |-> det.webcam, capture_result |-> det.capture_result,
       panicked |-> det.panicked, detected |-> ~det.panicked,
       faces |-> det.faces, done |-> done,
       calibration |->
         IF done
           THEN Some(NeckCheckCalibration(
                       Size(Head(local).width, Head(local).height)))
           ELSE cal]

\* One pass of calibrate()'s while loop (lines 192-203) and, when the loop
\* condition then fails, the assignment of lines 204-208.
calibrate_sample(cal, cam, d, fs) ==
  LET det   == detect(cam, d, fs)
      local == IF Len(det.faces) > 1 THEN <<>> ELSE det.faces
      done  == ~det.panicked /\ local # <<>>
  IN  [webcam |-> det.webcam, capture_result |-> det.capture_result,
       panicked |-> det.panicked, detected |-> ~det.panicked,
       faces |-> det.faces, done |-> done,
       calibration |->
         IF done
           THEN Some(NeckCheckCalibration(
                       Size(Head(local).width, Head(local).height)))
           ELSE cal]

\* The replies the driver gives to the calls one capture() can make on cam:
\* open_stream is called only on a stream that is not open and stop_stream
\* only in Discrete mode (a call never made gets no reply, kept TRUE).
Replies(cam) ==
  {d \in DriverReplies : /\ cam.stream_open => d.open
                         /\ cam.mode = "Continuous" => d.close}

\* The detector is asked for boxes only when a frame was captured.
Detections(cam, d) ==
  IF capture(cam, d).result = "Ok" THEN FaceLists ELSE {<<>>}

----------------------------------------------------------------------------
\* SpecCam: WebCam::capture against the counting fake driver

InitCam ==
  /\ harness = "camtest"
  /\ webcam \in {WebCamNew(m) : m \in WebCamMode}
  /\ calibration = None
  /\ faces = <<>>
  /\ capture_result = "none"
  /\ ret = "none"
  /\ op = "new"
  /\ opens = 0 /\ closes = 0 /\ captures = 0 /\ grabs = 0
  /\ driver = NoReply
  /\ pcMain = "api"
  /\ pcProx = "unspawned"
  /\ is_close = FALSE
  /\ is_too_close = FALSE
  /\ visible = FALSE
  /\ neckcheck_lock = "none"
  /\ neckcheck_poisoned = FALSE
  /\ is_too_close_lock = "none"

CamCapture ==
  /\ harness = "camtest"
  /\ pcMain = "api"
  /\ captures < MaxCaptures
  /\ \E d \in Replies(webcam) :
       \E c \in {capture(webcam, d)} :
           /\ webcam' = c.webcam
           /\ capture_result' = c.result
           /\ opens' = opens + (IF c.opened THEN 1 ELSE 0)
           /\ closes' = closes + (IF c.closed THEN 1 ELSE 0)
           /\ grabs' = grabs + (IF c.grabbed THEN 1 ELSE 0)
           /\ driver' = d
  /\ captures' = captures + 1
  /\ op' = "capture"
  /\ UNCHANGED <<harness, calibration, faces, ret, pcMain, neckcheck_lock>>
  /\ UNCHANGED progVars

NextCam == CamCapture

SpecCam == InitCam /\ [][NextCam]_vars

----------------------------------------------------------------------------
\* SpecMonitor: a NeckCheck under any sequence of calibrate() and check()

\* NeckCheck::new or NeckCheck::with_calibration, over either camera mode.
InitMonitor ==
  /\ harness = "test"
  /\ webcam \in {WebCamNew(m) : m \in WebCamMode}
  /\ calibration \in {None} \cup {Some(NeckCheckCalibration(b)) : b \in Boxes}
  /\ faces = <<>>
  /\ capture_result = "none"
  /\ ret = "none"
  /\ op = "new"
  /\ opens = 0 /\ closes = 0 /\ captures = 0 /\ grabs = 0
  /\ driver = NoReply
  /\ pcMain = "api"
  /\ pcProx = "unspawned"
  /\ is_close = FALSE
  /\ is_too_close = FALSE
  /\ visible = FALSE
  /\ neckcheck_lock = "none"
  /\ neckcheck_poisoned = FALSE
  /\ is_too_close_lock = "none"

\* calibrate() is entered: the first prompt, lines 188-191.
TestCalibrate ==
  /\ harness = "test"
  /\ pcMain = "api"
  /\ pcMain' = "calibrate"
  /\ op' = "calibrate"
  /\ UNCHANGED <<harness, webcam, calibration, faces, capture_result, ret,
                 neckcheck_lock>>
  /\ UNCHANGED camVars
  /\ UNCHANGED progVars

\* One prompt-and-sample pass of calibrate(), for the test and for main():
\* a capture error panics the caller, a sample without exactly one face
\* loops, a sample with one face sets the calibration and returns (in
\* main() the guard of line 248 is dropped).
CalibrateSample ==
  /\ pcMain = "calibrate"
  /\ \E d \in Replies(webcam) : \E fs \in Detections(webcam, d) :
       \E r \in {calibrate_sample(calibration, webcam, d, fs)} :
           /\ webcam' = r.webcam
           /\ capture_result' = r.capture_result
           /\ faces' = IF r.detected THEN r.faces ELSE faces
           /\ calibration' = r.calibration
           /\ pcMain' = IF r.panicked THEN "panicked"
                        ELSE IF ~r.done THEN "calibrate"
                        ELSE IF harness = "main" THEN "setup"
                        ELSE "api"
           /\ neckcheck_lock' = IF r.panicked \/ r.done THEN "none"
                                ELSE neckcheck_lock
           /\ neckcheck_poisoned' =
                IF r.panicked /\ neckcheck_lock # "none" THEN TRUE
                ELSE neckcheck_poisoned
  /\ UNCHANGED <<harness, ret, op, pcProx, is_close, is_too_close, visible,
                 is_too_close_lock>>
  /\ UNCHANGED camVars

\* check() called on the monitor.
TestCheck ==
  /\ harness = "test"
  /\ pcMain = "api"
  /\ \E d \in Replies(webcam) : \E fs \in Detections(webcam, d) :
       \E r \in {check(calibration, webcam, d, fs)} :
           /\ webcam' = r.webcam
           /\ capture_result' = r.capture_result
           /\ faces' = IF r.detected THEN r.faces ELSE faces
           /\ ret' = IF r.outcome = "panic" THEN ret ELSE r.outcome
           /\ pcMain' = IF r.outcome = "panic" THEN "panicked" ELSE "api"
  /\ op' = "check"
  /\ UNCHANGED <<harness, calibration, neckcheck_lock>>
  /\ UNCHANGED camVars
  /\ UNCHANGED progVars

NextMonitor == TestCalibrate \/ CalibrateSample \/ TestCheck

SpecMonitor == InitMonitor /\ [][NextMonitor]_vars

----------------------------------------------------------------------------
\* Spec: main()

Init ==
  /\ harness = "main"
  /\ webcam = WebCamNew("Continuous")
  /\ calibration = None
  /\ faces = <<>>
  /\ capture_result = "none"
  /\ ret = "none"
  /\ op = "new"
  /\ opens = 0 /\ closes = 0 /\ captures = 0 /\ grabs = 0
  /\ driver = NoReply
  /\ pcMain = "start"
  /\ pcProx = "unspawned"
  /\ is_close = FALSE
  /\ is_too_close = FALSE
  /\ visible = FALSE
  /\ neckcheck_lock = "none"
  /\ neckcheck_poisoned = FALSE
  /\ is_too_close_lock = "none"

\* The process lives until the main thread panics; main never returns
\* otherwise (see MainJoin).
Alive == pcMain # "panicked"

\* Lines 244-247: WebCam::new and FaceDetector::new panic when the camera or
\* the model file cannot be opened.
MainNew ==
  /\ harness = "main"
  /\ pcMain = "start"
  /\ \E ok \in BOOLEAN : pcMain' = IF ok THEN "lock" ELSE "panicked"
  /\ UNCHANGED <<harness, webcam, calibration, faces, capture_result, ret, op,
                 neckcheck_lock>>
  /\ UNCHANGED camVars
  /\ UNCHANGED progVars

\* Faulty variant of MainCalibrate: main goes on without calling calibrate().
MainCalibrate_skipped ==
  /\ harness = "main"
  /\ pcMain = "lock"
  /\ pcMain' = "setup"
  /\ UNCHANGED <<harness, webcam, calibration, faces, capture_result, ret, op,
                 neckcheck_lock>>
  /\ UNCHANGED camVars
  /\ UNCHANGED progVars

\* Line 248: neckcheck.lock().unwrap().calibrate(), up to the first prompt.
MainCalibrate ==
  /\ harness = "main"
  /\ pcMain = "lock"
  /\ neckcheck_lock = "none"
  /\ neckcheck_lock' = "main"
  /\ pcMain' = "calibrate"
  /\ op' = "calibrate"
  /\ UNCHANGED <<harness, webcam, calibration, faces, capture_result, ret>>
  /\ UNCHANGED camVars
  /\ UNCHANGED progVars

\* Lines 250-257: the flag starts false; EventLoop::new and the window build
\* are unwrapped; the window is built without with_visible, so it is shown.
MainSetup ==
  /\ pcMain = "setup"
  /\ \E ok \in BOOLEAN :
       IF ok
         THEN /\ pcMain' = "spawn"
              /\ is_too_close' = FALSE
              /\ visible' = TRUE
         ELSE /\ pcMain' = "panicked"
              /\ UNCHANGED <<is_too_close, visible>>
  /\ UNCHANGED <<harness, webcam, calibration, faces, capture_result, ret, op,
                 neckcheck_lock, pcProx, is_close, neckcheck_poisoned,
                 is_too_close_lock>>
  /\ UNCHANGED camVars

\* Lines 260-273: thread::spawn.
MainSpawn ==
  /\ pcMain = "spawn"
  /\ pcMain' = "event_loop"
  /\ pcProx' = "loop"
  /\ UNCHANGED <<harness, webcam, calibration, faces, capture_result, ret, op,
                 neckcheck_lock, is_close, is_too_close, visible,
                 neckcheck_poisoned, is_too_close_lock>>
  /\ UNCHANGED camVars

\* Faulty variant of EventLoopClose: main resets the flag through its own
\* handle of line 250 when the window is closed.
EventLoopClose_clears_flag ==
  /\ pcMain = "event_loop"
  /\ pcMain' = "join"
  /\ is_too_close' = FALSE
  /\ UNCHANGED <<harness, webcam, calibration, faces, capture_result, ret, op,
                 neckcheck_lock, pcProx, is_close, visible, neckcheck_poisoned,
                 is_too_close_lock>>
  /\ UNCHANGED camVars

\* Lines 275-283: CloseRequested makes event_loop.run return; every other
\* event is dropped (line 281), which changes nothing.
EventLoopClose ==
  /\ pcMain = "event_loop"
  /\ pcMain' = "join"
  /\ UNCHANGED <<harness, webcam, calibration, faces, capture_result, ret, op,
                 neckcheck_lock>>
  /\ UNCHANGED camVars
  /\ UNCHANGED progVars

\* Line 286: join().unwrap().  The thread's loop has no exit, so join
\* returns only when the thread panicked, and unwrap then panics main.
MainJoin ==
  /\ pcMain = "join"
  /\ pcProx = "panicked"
  /\ pcMain' = "panicked"
  /\ UNCHANGED <<harness, webcam, calibration, faces, capture_result, ret, op,
                 neckcheck_lock>>
  /\ UNCHANGED camVars
  /\ UNCHANGED progVars

\* Line 264, first half: neckcheck.lock().unwrap(), which panics on a
\* poisoned mutex.  The closure of line 262 owns the window (move): a panic
\* unwinds the thread and drops the window, which closes it.
ProxLock ==
  /\ Alive
  /\ pcProx = "loop"
  /\ neckcheck_lock = "none"
  /\ IF neckcheck_poisoned
       THEN /\ pcProx' = "panicked"
            /\ visible' = FALSE
            /\ UNCHANGED neckcheck_lock
       ELSE /\ pcProx' = "check"
            /\ neckcheck_lock' = "proximity_thread"
            /\ UNCHANGED visible
  /\ UNCHANGED <<harness, webcam, calibration, faces, capture_result, ret, op,
                 pcMain, is_close, is_too_close, neckcheck_poisoned,
                 is_too_close_lock>>
  /\ UNCHANGED camVars

\* Faulty variant of ProxCheck: the guard of the monitor outlives the
\* statement, so the monitor stays locked after check() has returned.
ProxCheck_keeps_guard ==
  /\ Alive
  /\ pcProx = "check"
  /\ \E d \in Replies(webcam) : \E fs \in Detections(webcam, d) :
       \E r \in {check(calibration, webcam, d, fs)} :
           /\ webcam' = r.webcam
           /\ capture_result' = r.capture_result
           /\ faces' = IF r.detected THEN r.faces ELSE faces
           /\ IF r.outcome = "panic"
                THEN /\ pcProx' = "panicked"
                     /\ neckcheck_poisoned' = TRUE
                     /\ visible' = FALSE
                     /\ neckcheck_lock' = "none"
                     /\ UNCHANGED <<ret, is_close>>
                ELSE /\ pcProx' = "lock_flag"
                     /\ ret' = r.outcome
                     /\ is_close' = (r.outcome = "false")
                     /\ UNCHANGED <<neckcheck_poisoned, visible,
                                    neckcheck_lock>>
  /\ op' = "check"
  /\ UNCHANGED <<harness, calibration, pcMain, is_too_close,
                 is_too_close_lock>>
  /\ UNCHANGED camVars

\* Line 264, second half: is_close = !check(); the guard is dropped at the
\* end of the statement.  A panic in check() ends the thread, poisons the
\* mutex and drops the window the closure owns.
ProxCheck ==
  /\ Alive
  /\ pcProx = "check"
  /\ \E d \in Replies(webcam) : \E fs \in Detections(webcam, d) :
       \E r \in {check(calibration, webcam, d, fs)} :
           /\ webcam' = r.webcam
           /\ capture_result' = r.capture_result
           /\ faces' = IF r.detected THEN r.faces ELSE faces
           /\ IF r.outcome = "panic"
                THEN /\ pcProx' = "panicked"
                     /\ neckcheck_poisoned' = TRUE
                     /\ visible' = FALSE
                     /\ UNCHANGED <<ret, is_close>>
                ELSE /\ pcProx' = "lock_flag"
                     /\ ret' = r.outcome
                     /\ is_close' = (r.outcome = "false")
                     /\ UNCHANGED <<neckcheck_poisoned, visible>>
  /\ neckcheck_lock' = "none"
  /\ op' = "check"
  /\ UNCHANGED <<harness, calibration, pcMain, is_too_close,
                 is_too_close_lock>>
  /\ UNCHANGED camVars

\* Faulty variant of ProxLockFlag: the flag is reached without its mutex.
ProxLockFlag_no_lock ==
  /\ Alive
  /\ pcProx = "lock_flag"
  /\ pcProx' = "write"
  /\ UNCHANGED <<harness, webcam, calibration, faces, capture_result, ret, op,
                 pcMain, is_close, is_too_close, visible, neckcheck_lock,
                 neckcheck_poisoned, is_too_close_lock>>
  /\ UNCHANGED camVars

\* Line 265, first half: is_too_close.lock().unwrap().
ProxLockFlag ==
  /\ Alive
  /\ pcProx = "lock_flag"
  /\ is_too_close_lock = "none"
  /\ is_too_close_lock' = "proximity_thread"
  /\ pcProx' = "write"
  /\ UNCHANGED <<harness, webcam, calibration, faces, capture_result, ret, op,
                 pcMain, is_close, is_too_close, visible, neckcheck_lock,
                 neckcheck_poisoned>>
  /\ UNCHANGED camVars

\* Faulty variant of ProxWrite: check()'s result is stored without the
\* negation of line 264.
ProxWrite_not_negated ==
  /\ Alive
  /\ pcProx = "write"
  /\ is_too_close' = ~is_close
  /\ is_too_close_lock' = "none"
  /\ pcProx' = "signal"
  /\ UNCHANGED <<harness, webcam, calibration, faces, capture_result, ret, op,
                 pcMain, is_close, visible, neckcheck_lock,
                 neckcheck_poisoned>>
  /\ UNCHANGED camVars

\* Line 265, second half: the store, then the guard is dropped.
ProxWrite ==
  /\ Alive
  /\ pcProx = "write"
  /\ is_too_close' = is_close
  /\ is_too_close_lock' = "none"
  /\ pcProx' = "signal"
  /\ UNCHANGED <<harness, webcam, calibration, faces, capture_result, ret, op,
                 pcMain, is_close, visible, neckcheck_lock,
                 neckcheck_poisoned>>
  /\ UNCHANGED camVars

\* Faulty variant of ProxSignal: the window is shown when the posture is fine.
ProxSignal_inverted ==
  /\ Alive
  /\ pcProx = "signal"
  /\ visible' = ~is_close
  /\ pcProx' = "loop"
  /\ UNCHANGED <<harness, webcam, calibration, faces, capture_result, ret, op,
                 pcMain, is_close, is_too_close, neckcheck_lock,
                 neckcheck_poisoned, is_too_close_lock>>
  /\ UNCHANGED camVars

\* Lines 266-269: window.set_visible(is_close).
ProxSignal ==
  /\ Alive
  /\ pcProx = "signal"
  /\ visible' = is_close
  /\ pcProx' = "loop"
  /\ UNCHANGED <<harness, webcam, calibration, faces, capture_result, ret, op,
                 pcMain, is_close, is_too_close, neckcheck_lock,
                 neckcheck_poisoned, is_too_close_lock>>
  /\ UNCHANGED camVars

MainNext == MainNew \/ MainCalibrate \/ (harness = "main" /\ CalibrateSample)
              \/ MainSetup \/ MainSpawn \/ EventLoopClose \/ MainJoin

ProxNext == ProxLock \/ ProxCheck \/ ProxLockFlag \/ ProxWrite \/ ProxSignal

Next == MainNew \/ MainCalibrate \/ CalibrateSample \/ MainSetup \/ MainSpawn
          \/ EventLoopClose \/ MainJoin
          \/ ProxLock \/ ProxCheck \/ ProxLockFlag \/ ProxWrite \/ ProxSignal

Spec == Init /\ [][Next]_vars

\* The scheduler runs every thread that can take a step.
FairSpec == Spec /\ WF_vars(MainNext) /\ WF_vars(ProxNext)

\* A calibration sample in which the detector finds exactly one face.
OneFaceSample ==
  CalibrateSample /\ capture_result' = "Ok" /\ Len(faces') = 1

\* FairSpec with the operator eventually offering such a sample for as long
\* as calibrate() keeps asking.
CalibrateSpec == FairSpec /\ SF_vars(OneFaceSample)

----------------------------------------------------------------------------
\* Properties

Calibrated == calibration # None
MaxSize == calibration[1].max_detection_size
Returned == pcMain # "panicked"
DriverError == capture_result \in {"FrameGrabError", "FrameDecodeError"}

\* C1 (SpecMonitor): check() on a monitor without calibration always panics
\* and never returns a bool, whatever the frame shows, a frame without any
\* face included.
ClaimC1 ==
  (op = "check" /\ ~Calibrated) => ~Returned

\* C2 (SpecMonitor): on a calibrated monitor, whatever max_detection_size
\* is, check() returns true when the captured frame has no detected face.
CheckNoFaceReturnsTrue ==
  (op = "check" /\ Calibrated /\ capture_result = "Ok" /\ faces = <<>>)
    => (Returned /\ ret = "true")

WitnessC2 ==
  /\ op = "check" /\ Calibrated /\ capture_result = "Ok" /\ faces = <<>>
  /\ Returned /\ ret = "true"

\* C3 (SpecMonitor): on a calibrated monitor with max_detection_size {W,H}
\* and first detection {w,h}, check() returns false exactly when w > W or
\* h > H and true otherwise; {100,100} against {100,100} is true, {101,100}
\* and {100,101} are false.
CheckStrictPerDimension ==
  (op = "check" /\ Calibrated /\ capture_result = "Ok" /\ faces # <<>>)
    => /\ Returned
       /\ ret \in {"true", "false"}
       /\ ret = "true" <=> (/\ faces[1].width <= MaxSize.width
                            /\ faces[1].height <= MaxSize.height)
       /\ (MaxSize = Size(100, 100) /\ faces[1] = Size(100, 100))
            => ret = "true"
       /\ (MaxSize = Size(100, 100)
             /\ faces[1] \in {Size(101, 100), Size(100, 101)})
            => ret = "false"

WitnessC3 ==
  /\ op = "check" /\ Calibrated /\ capture_result = "Ok" /\ Returned
  /\ MaxSize = Size(100, 100)
  /\ faces # <<>> /\ faces[1] = Size(100, 100)
  /\ ret = "true"

\* C4 (SpecMonitor): calibrate() returns only from a sample with exactly one
\* face, with max_detection_size equal to that face's width and height; a
\* sample with no face or with several faces leaves calibrate() in its loop
\* and the calibration as it was.
CalibrateOnlyOnOneFace ==
  [][pcMain = "calibrate" =>
       /\ pcMain' \in {"api", "setup"} =>
            /\ Len(faces') = 1
            /\ calibration' = Some(NeckCheckCalibration(
                                 Size(faces'[1].width, faces'[1].height)))
       /\ (capture_result' = "Ok" /\ Len(faces') # 1) =>
            /\ pcMain' = "calibrate"
            /\ calibration' = calibration]_vars

WitnessC4 ==
  /\ op = "calibrate" /\ pcMain = "api" /\ capture_result = "Ok"
  /\ Len(faces) = 1
  /\ calibration = Some(NeckCheckCalibration(Size(60, 80)))
  /\ faces[1] = Size(60, 80)

\* C5 (SpecCam): in Discrete mode the stream is closed after every
\* capture(), whatever its result (no stream is left open by a capture()
\* that did not call close); in Continuous mode the stream is never closed
\* and opened at most once over any number of captures.
ClaimC5 ==
  /\ webcam.mode = "Discrete" => (~webcam.stream_open \/ closes = captures)
  /\ webcam.mode = "Continuous" => (opens <= 1 /\ closes = 0)

\* C6 (Spec), as claimed: in every state the window is shown iff the most
\* recently completed check() returned false, also before the first check().
ClaimC6 ==
  visible = (ret = "false")

\* C6 (Spec), amended: once a check() has completed, while the sampling
\* thread runs and except between a check() return and the set_visible that
\* follows it, the window is shown iff the most recently completed check()
\* returned false, and the flag agrees with the window.
OverlayReflectsCheckAfterSignal ==
  (ret # "none" /\ pcProx \in {"loop", "check"})
    => (visible = (ret = "false") /\ is_too_close = visible)

WitnessC6 ==
  /\ pcProx = "loop" /\ ret = "false" /\ visible /\ is_too_close

\* C7 (FairSpec): once the event loop has received the close request, main
\* eventually terminates.
ClaimC7 ==
  (pcMain = "join") ~> (pcMain \in {"returned", "panicked"})

\* C8 (Spec): a frame grab or decode error during monitoring does not abort
\* the proximity thread; the loop goes on to a further check().
ClaimC8 ==
  (op = "check" /\ DriverError) => pcProx # "panicked"

\* C9 (SpecMonitor): no calibrate() or check() step makes a present
\* calibration absent.
CalibrationNeverCleared ==
  [][Calibrated => calibration' # None]_vars

WitnessC9 ==
  /\ Calibrated /\ op = "calibrate" /\ pcMain = "calibrate"
  /\ capture_result = "Ok" /\ Len(faces) = 2

\* C10 (SpecMonitor): once the calibration is set no operation changes
\* max_detection_size, a further calibrate() included.
ClaimC10 ==
  [][Calibrated => calibration' = calibration]_vars

\* C11 (Spec): the too-close flag is written only by the sampling thread,
\* at line 265 and with the flag's mutex held; the main (presentation)
\* thread neither writes it nor takes its mutex.
FlagWrittenOnlyBySamplingUnderLock ==
  [][/\ is_too_close' # is_too_close =>
          /\ pcProx = "write" /\ pcProx' = "signal"
          /\ is_too_close_lock = "proximity_thread"
          /\ pcMain' = pcMain
     /\ is_too_close_lock' \in {"none", "proximity_thread"}
     /\ is_too_close_lock' = "proximity_thread" <=> pcProx' = "write"]_vars

WitnessC11 ==
  /\ pcProx = "signal" /\ is_too_close /\ is_too_close_lock = "none"
  /\ pcMain = "event_loop"

\* C12 (Spec): the sampling thread exists only after calibrate() has
\* returned and released the monitor, so every check() it makes finds the
\* calibration present.
CheckOnlyAfterCalibration ==
  pcProx # "unspawned" =>
    /\ Calibrated
    /\ pcMain \in {"event_loop", "join", "panicked"}
    /\ neckcheck_lock # "main"

WitnessC12 ==
  /\ pcProx = "lock_flag" /\ op = "check" /\ Calibrated

Calibration50x80 == Some(NeckCheckCalibration(Size(50, 80)))

\* C13 (SpecMonitor): calibrate() on a sample with the single face 50x80
\* returns with max_detection_size {50,80}; every check() made on that
\* calibration leaves it unchanged and returns false for a face of 60x80,
\* true for no face and true for a face of 50x80.
EndToEnd50x80 ==
  [][/\ (pcMain = "calibrate" /\ pcMain' = "api"
           /\ faces' = <<Size(50, 80)>>)
          => calibration' = Calibration50x80
     /\ (pcMain = "api" /\ op' = "check") =>
          /\ calibration' = calibration
          /\ (calibration = Calibration50x80 /\ capture_result' = "Ok") =>
               /\ pcMain' = "api"
               /\ faces' = <<Size(60, 80)>> => ret' = "false"
               /\ faces' = <<>> => ret' = "true"
               /\ faces' = <<Size(50, 80)>> => ret' = "true"]_vars

WitnessC13 ==
  /\ op = "check" /\ pcMain = "api" /\ capture_result = "Ok"
  /\ calibration = Calibration50x80
  /\ faces = <<Size(60, 80)>> /\ ret = "false"

\* C14 (Spec): an iteration of the sampling loop is a complete check(),
\* then the store of the negated result into the flag with its mutex held,
\* then set_visible with the same value; the next check() starts only after
\* the set_visible.
IterationOrder ==
  [][/\ (pcProx = "check" /\ pcProx' \notin {"check", "panicked"}) =>
          /\ pcProx' = "lock_flag"
          /\ is_close' = (ret' = "false")
          /\ UNCHANGED <<is_too_close, visible>>
     /\ (pcProx = "write" /\ pcProx' # "write") =>
          /\ pcProx' = "signal"
          /\ is_too_close_lock = "proximity_thread"
          /\ is_too_close' = (ret = "false")
          /\ UNCHANGED <<ret, visible>>
     /\ (pcProx = "signal" /\ pcProx' # "signal") =>
          /\ pcProx' = "loop"
          /\ visible' = (ret = "false")
          /\ visible' = is_too_close
          /\ UNCHANGED <<ret, is_too_close>>
     /\ (pcProx # "check" /\ pcProx' = "check") => pcProx = "loop"
     /\ (ret' # ret \/ faces' # faces) =>
          (pcProx = "check" \/ pcMain = "calibrate")]_vars

WitnessC14 ==
  /\ pcProx = "signal" /\ ret = "false" /\ is_too_close /\ ~visible

\* The same camera with its stream already open.
AlreadyOpen(cam) == [cam EXCEPT !.stream_open = TRUE]

\* C15 (SpecCam), as claimed: capture() on a stream that is not open opens
\* it and then grabs a frame, capture() on an open stream does not open it
\* again, and the caller gets the result an already open stream gives.
ClaimC15 ==
  [][captures' = captures + 1 =>
       /\ ~webcam.stream_open => (opens' = opens + 1 /\ grabs' = grabs + 1)
       /\ webcam.stream_open => (opens' = opens /\ grabs' = grabs + 1)
       /\ capture_result' = capture(AlreadyOpen(webcam), driver').result]_vars

\* C15 (SpecCam), amended: as claimed when the lazy open succeeds; when it
\* fails the caller gets FrameGrabError, whatever the frame would have been.
LazyOpenTransparentWhenItSucceeds ==
  [][captures' = captures + 1 =>
       /\ ~webcam.stream_open => (opens' = opens + 1 /\ grabs' = grabs + 1)
       /\ webcam.stream_open => (opens' = opens /\ grabs' = grabs + 1)
       /\ (webcam.stream_open \/ driver'.open) =>
            capture_result' = capture(AlreadyOpen(webcam), driver').result
       /\ (~webcam.stream_open /\ ~driver'.open) =>
            capture_result' = "FrameGrabError"]_vars

WitnessC15 ==
  /\ op = "capture" /\ webcam.mode = "Continuous" /\ webcam.stream_open
  /\ captures = 2 /\ opens = 1 /\ grabs = 2 /\ capture_result = "Ok"

\* C19 (SpecCam): capture() returns Ok, FrameGrabError or FrameDecodeError
\* only: a failed lazy open is dropped and followed by a frame grab on the
\* stream that is not open, and a failed Discrete-mode close is dropped
\* behind an Ok result.
CaptureDropsOpenAndCloseErrors ==
  [][captures' = captures + 1 =>
       /\ capture_result' \in {"Ok", "FrameGrabError", "FrameDecodeError"}
       /\ capture_result' \notin {"StreamOpenError", "StreamCloseError"}
       /\ (~webcam.stream_open /\ ~driver'.open) =>
            /\ opens' = opens + 1
            /\ grabs' = grabs + 1
            /\ ~webcam'.stream_open
            /\ capture_result' = "FrameGrabError"
       /\ (closes' = closes + 1 /\ ~driver'.close) =>
            /\ capture_result' = "Ok"
            /\ webcam'.stream_open]_vars

WitnessC19 ==
  /\ op = "capture" /\ ~driver.open /\ ~webcam.stream_open
  /\ captures = 1 /\ opens = 1 /\ grabs = 1
  /\ capture_result = "FrameGrabError"

\* The box is within the calibrated limit in both dimensions.
Within(face) ==
  face.width <= MaxSize.width /\ face.height <= MaxSize.height

\* C16 (SpecMonitor): with several detections check() decides on the first
\* one alone, whatever the sizes of the later ones: first within the limit
\* and second over it returns true.
CheckDecidesOnFirstDetection ==
  (op = "check" /\ Calibrated /\ capture_result = "Ok" /\ Len(faces) > 1)
    => /\ Returned
       /\ ret = "true" <=> Within(faces[1])
       /\ ret = "false" <=> ~Within(faces[1])
       /\ (Within(faces[1]) /\ ~Within(faces[2])) => ret = "true"
       /\ (~Within(faces[1]) /\ Within(faces[2])) => ret = "false"

WitnessC16 ==
  /\ op = "check" /\ Calibrated /\ capture_result = "Ok" /\ Returned
  /\ MaxSize = Size(60, 80)
  /\ faces = <<Size(50, 80), Size(101, 100)>>
  /\ ret = "true"

\* C18 (Spec): the sampling thread never holds both mutexes at once and
\* holds none while it signals the window; a mutex it is about to take is
\* free, so the threads cannot deadlock on the two locks.
LocksNeverNested ==
  /\ ~(neckcheck_lock = "proximity_thread"
         /\ is_too_close_lock = "proximity_thread")
  /\ pcProx = "signal" =>
       (neckcheck_lock = "none" /\ is_too_close_lock = "none")
  /\ pcProx = "loop" => neckcheck_lock = "none"
  /\ pcProx = "lock_flag" => is_too_close_lock = "none"

WitnessC18 ==
  /\ pcProx = "write" /\ is_too_close_lock = "proximity_thread"
  /\ neckcheck_lock = "none" /\ pcMain = "join"

\* C17 (CalibrateSpec): calibrate() keeps sampling for as long as samples
\* have no face or several, and leaves its loop on a sample exactly when
\* the sample has one face; if such a sample eventually comes, calibrate()
\* eventually returns with the calibration set (unless a capture error has
\* panicked it before).
CalibrateRetriesUntilOneFace ==
  /\ [][(pcMain = "calibrate" /\ capture_result' = "Ok") =>
          /\ pcMain' = "calibrate" <=> Len(faces') # 1
          /\ pcMain' # "calibrate" => (pcMain' = "setup" /\ calibration' # None)
       ]_vars
  /\ (pcMain = "calibrate")
       ~> ((pcMain = "setup" /\ Calibrated) \/ pcMain = "panicked")

WitnessC17 ==
  /\ pcMain = "setup" /\ op = "calibrate" /\ Calibrated /\ Len(faces) = 1
  /\ capture_result = "Ok"

\* C20 (Spec), as claimed: once created, the flag and the window's
\* visibility change only in steps of the sampling thread; when that thread
\* has stopped on a panic both keep the values they had, no check() runs
\* any more and the flag's mutex is free and not poisoned.
ClaimC20 ==
  [][/\ (pcProx # "unspawned"
           /\ (is_too_close' # is_too_close \/ visible' # visible))
          => pcProx' # pcProx
     /\ pcProx' = "panicked" =>
          /\ is_too_close' = is_too_close
          /\ visible' = visible
          /\ is_too_close_lock' = "none"
     /\ pcProx = "panicked" =>
          UNCHANGED <<pcProx, ret, faces, capture_result, op, webcam>>]_vars

\* C20 (Spec), amended: as claimed for the flag, the checks and the mutex;
\* the window is dropped by the panic, so the overlay is not shown any more
\* once the thread has stopped.
FlagKeptWindowDroppedAfterPanic ==
  [][/\ (pcProx # "unspawned"
           /\ (is_too_close' # is_too_close \/ visible' # visible))
          => pcProx' # pcProx
     /\ pcProx' = "panicked" =>
          /\ is_too_close' = is_too_close
          /\ ~visible'
          /\ is_too_close_lock' = "none"
     /\ pcProx = "panicked" =>
          UNCHANGED <<pcProx, ret, faces, capture_result, op, webcam>>]_vars

WitnessC20 ==
  /\ pcProx = "panicked" /\ ret = "false" /\ is_too_close /\ ~visible
  /\ is_too_close_lock = "none" /\ neckcheck_poisoned
====
